---- MODULE Spec2Model ----
(***************************************************************************)
(* tsh, a tiny shell with job control (src/tsh_tested.c).                  *)
(*                                                                         *)
(* The model holds the job table, the shell's SIGCHLD mask and pending     *)
(* bit, the flag child_finished, the position of the main flow inside      *)
(* eval / do_bgfg / waitfg, and the kernel's view of every child process.  *)
(* The main flow is cut at the points where a signal handler can run and   *)
(* see or change what the main flow is working on; a handler runs to its   *)
(* end in one step, as it does relative to the interrupted main flow.      *)
(*                                                                         *)
(* Left out: the failure returns of sigprocmask (its arguments are valid,  *)
(* so it cannot fail), the child's side of fork (setpgid, execvp: the      *)
(* child is a process that runs until it stops or terminates), the -v flag *)
(* and the "terminated by signal" notice of sigchld_handler, which changes *)
(* no state.                                                               *)
(***************************************************************************)
EXTENDS Integers, Sequences, FiniteSets

\* The job table of the source has 16 slots (src/tsh_tested.c:20).  The model
\* keeps every algorithm over the table as written and scales the table down,
\* so that a full table is reached.
MAXJOBS == 2

\* How many children a run forks.
MaxForks == 3

\* The kernel's pid pool: one more pid than the table has slots, so that a
\* child can be forked while the table is full, and small enough that the
\* kernel hands a pid out again after its process was reaped.
Pids == 1..(MAXJOBS + 1)

\* Job states (src/tsh_tested.c:23-26)
UNDEF == 0
FG == 1
BG == 2
ST == 3

Slots == 1..MAXJOBS

VARIABLES
  jobs,            \* struct job_t jobs[MAXJOBS]
  child_finished,  \* int child_finished
  blocked,         \* SIGCHLD is in the shell's signal mask
  pending,         \* a SIGCHLD is pending for the shell
  proc,            \* the kernel's state of each pid
  pc,              \* where the main flow is
  bg,              \* eval: int bg
  pid,             \* eval: pid_t pid
  job,             \* do_bgfg: struct job_t *job (slot index, 0 is NULL)
  wpid,            \* waitfg: pid_t pid
  wasST,           \* do_bgfg found its job in state ST
  nforks,          \* how many times fork() has succeeded
  out,             \* what the last step printed
  sig              \* the kill() calls the last step made

\* The locals of eval, do_bgfg and waitfg
locals == <<bg, pid, job, wpid, wasST>>

vars == <<jobs, child_finished, blocked, pending, proc, pc, locals, nforks,
          out, sig>>

----------------------------------------------------------------------------
\* Command lines: the text eval was given, kept in the job for display.
CmdLine(b) == IF b = 1 THEN "prog &\n" ELSE "prog\n"

Msg(t, j, p) == [text |-> t, jid |-> j, pid |-> p]

\* clearjob
ClearedJob == [pid |-> 0, jid |-> 0, state |-> UNDEF, cmdline |-> ""]

\* initjobs
initjobs == [i \in Slots |-> ClearedJob]

\* The first slot index in i..MAXJOBS whose field f holds v, 0 if none: the
\* shape of every `for (i = 0; i < MAXJOBS; i++) if (jobs[i].f == v) return`
\* of the source.
RECURSIVE FirstSlot(_, _, _, _)
FirstSlot(J, f, v, i) ==
  IF i > MAXJOBS THEN 0
  ELSE IF J[i][f] = v THEN i
  ELSE FirstSlot(J, f, v, i + 1)

\* freejid: the second loop, over taken[1..MAXJOBS]
RECURSIVE FreejidScan(_, _)
FreejidScan(taken, i) ==
  IF i > MAXJOBS THEN 0
  ELSE IF ~taken[i] THEN i
  ELSE FreejidScan(taken, i + 1)

\* A jid allocator that hands out one more than the largest jid in use.
freejid_next(J) ==
  LET used == {J[i].jid : i \in Slots}
      top == CHOOSE m \in used : \A x \in used : x <= m
  IN top + 1

\* A jid allocator that numbers the new job by the count of jobs in the table.
freejid_count(J) ==
  LET n == Cardinality({i \in Slots : J[i].jid # 0})
  IN IF n >= MAXJOBS THEN 0 ELSE n + 1

\* freejid - smallest free job ID, 0 if none
freejid(J) ==
  LET taken == [j \in 0..MAXJOBS |->
                  \E i \in Slots : J[i].jid # 0 /\ J[i].jid = j]
  IN FreejidScan(taken, 1)

\* An addjob that takes the first empty slot without asking freejid whether a
\* jid is left, and says nothing when there is none.
addjob_silent(J, p, state, cmdline) ==
  LET i == FirstSlot(J, "pid", 0, 1)
  IN IF p < 1 \/ i = 0
       THEN [ret |-> 0, jobs |-> J, out |-> <<>>]
       ELSE [ret |-> 1,
             jobs |-> [J EXCEPT ![i] = [pid |-> p, jid |-> freejid(J),
                                        state |-> state, cmdline |-> cmdline]],
             out |-> <<>>]

\* addjob - add a job to the job list; ret is its return value
addjob(J, p, state, cmdline) ==
  IF p < 1 THEN [ret |-> 0, jobs |-> J, out |-> <<>>]
  ELSE LET free == freejid(J)
           i == FirstSlot(J, "pid", 0, 1)
       IN IF free = 0
            THEN [ret |-> 0, jobs |-> J,
                  out |-> <<Msg("Tried to create too many jobs", 0, 0)>>]
          ELSE IF i = 0
            THEN [ret |-> 0, jobs |-> J, out |-> <<>>]
          ELSE [ret |-> 1,
                jobs |-> [J EXCEPT ![i] = [pid |-> p, jid |-> free,
                                           state |-> state, cmdline |-> cmdline]],
                out |-> <<>>]

\* getjobpid - slot of the first job with this pid, 0 (NULL) if none
getjobpid(J, p) ==
  IF p < 1 THEN 0 ELSE FirstSlot(J, "pid", p, 1)

\* A getjobjid without the test `jid < 1`: jid 0 finds the first empty slot.
getjobjid_any(J, j) == FirstSlot(J, "jid", j, 1)

\* getjobjid - slot of the first job with this jid, 0 (NULL) if none
getjobjid(J, j) ==
  IF j < 1 THEN 0 ELSE FirstSlot(J, "jid", j, 1)

\* pid2jid
pid2jid(J, p) ==
  LET i == getjobpid(J, p)
  IN IF i = 0 THEN 0 ELSE J[i].jid

\* fgpid - pid of the first slot whose state is FG, 0 if none
fgpid(J) ==
  LET i == FirstSlot(J, "state", FG, 1)
  IN IF i = 0 THEN 0 ELSE J[i].pid

\* deletejob - clear the first slot with this pid
deletejob(J, p) ==
  LET i == getjobpid(J, p)
  IN IF i = 0 THEN J ELSE [J EXCEPT ![i] = ClearedJob]

\* deletejob for every pid of a set (the pids are distinct, so the order of
\* the calls does not matter)
RECURSIVE DeleteAll(_, _)
DeleteAll(J, T) ==
  IF T = {} THEN J
  ELSE LET p == CHOOSE x \in T : TRUE
       IN DeleteAll(deletejob(J, p), T \ {p})

----------------------------------------------------------------------------
\* The kernel's side.  proc[p] is
\*   "none"     no such process: the pid is free
\*   "run"      running
\*   "stopnew"  stopped, the stop not yet reported by waitpid(WUNTRACED)
\*   "stop"     stopped, the stop already reported
\*   "zombie"   terminated, not yet reaped
ProcStates == {"none", "run", "stopnew", "stop", "zombie"}

Zombies == {p \in Pids : proc[p] = "zombie"}
StopNew == {p \in Pids : proc[p] = "stopnew"}

Alive == pc \notin {"exited", "crashed"}

\* kill(target, signo) by the shell.  A negative target names a process group;
\* every job is the only member of its group, whose id is its pid.  Target 0
\* is the shell's own group, which holds no job.  react: the receiver takes
\* the signal's default action (it may instead catch or ignore SIGINT and
\* SIGTSTP).  Result: the new proc, whether a SIGCHLD is raised for the shell,
\* and kill's return value.
Kill(P, target, signo, react) ==
  LET p == IF target < 0 THEN -target ELSE target
  IN IF p = 0 THEN [proc |-> P, chld |-> FALSE, ret |-> 0]
     ELSE IF P[p] = "none" THEN [proc |-> P, chld |-> FALSE, ret |-> -1]
     ELSE IF signo = "SIGCONT" /\ P[p] \in {"stop", "stopnew"}
       THEN [proc |-> [P EXCEPT ![p] = "run"], chld |-> TRUE, ret |-> 0]
     ELSE IF signo = "SIGINT" /\ P[p] = "run" /\ react
       THEN [proc |-> [P EXCEPT ![p] = "zombie"], chld |-> TRUE, ret |-> 0]
     ELSE IF signo = "SIGTSTP" /\ P[p] = "run" /\ react
       THEN [proc |-> [P EXCEPT ![p] = "stopnew"], chld |-> TRUE, ret |-> 0]
     ELSE [proc |-> P, chld |-> FALSE, ret |-> 0]

----------------------------------------------------------------------------
Init ==
  /\ jobs = initjobs
  /\ child_finished = 0
  /\ blocked = FALSE
  /\ pending = FALSE
  /\ proc = [p \in Pids |-> "none"]
  /\ pc = "prompt"
  /\ bg = 0
  /\ pid = 0
  /\ job = 0
  /\ wpid = 0
  /\ wasST = FALSE
  /\ nforks = 0
  /\ out = <<>>
  /\ sig = <<>>

\* What a step prints, and the kill() calls it makes
Says(o) == out' = o

Sends(k) == sig' = k

\* A step that prints nothing and sends nothing
Quiet == Says(<<>>) /\ Sends(<<>>)

\* The main flow is back in main's read loop: the locals of eval, do_bgfg and
\* waitfg are gone.
ToPrompt ==
  /\ pc' = "prompt"
  /\ bg' = 0 /\ pid' = 0 /\ job' = 0 /\ wpid' = 0
  /\ wasST' = FALSE

\* eval: an empty line (argv[0] == NULL) is ignored
EvalEmpty ==
  /\ pc = "prompt"
  /\ Quiet
  /\ UNCHANGED <<jobs, child_finished, blocked, pending, proc, pc, locals, nforks>>

\* ---- eval, a command that is not built in ----

\* eval: builtin_cmd returned 0; block SIGCHLD; child_finished = 0
EvalBlock ==
  /\ pc = "prompt"
  /\ nforks < MaxForks
  /\ \E b \in {0, 1} : bg' = b
  /\ blocked' = TRUE
  /\ child_finished' = 0
  /\ pc' = "ev_fork"
  /\ Quiet
  /\ UNCHANGED <<jobs, pending, proc, pid, job, wpid, wasST, nforks>>

\* The pids fork() can return: a free pid.  Free pids that nothing in the
\* shell refers to are interchangeable, and the smallest stands for them all;
\* a free pid that the job table still holds is a choice of its own.
ForkPids ==
  LET free == {p \in Pids : proc[p] = "none"}
      held == {p \in free : \E i \in Slots : jobs[i].pid = p}
      fresh == free \ held
  IN held \cup {p \in fresh : \A q \in fresh : p <= q}

\* eval: fork() succeeded in the parent
EvalFork ==
  /\ pc = "ev_fork"
  /\ \E p \in ForkPids :
       /\ proc' = [proc EXCEPT ![p] = "run"]
       /\ pid' = p
  /\ nforks' = nforks + 1
  /\ pc' = "ev_addjob"
  /\ Quiet
  /\ UNCHANGED <<jobs, child_finished, blocked, pending, bg, job, wpid, wasST>>

\* eval: fork() < 0: "fork error", return
EvalForkFail ==
  /\ pc = "ev_fork"
  /\ Says(<<Msg("fork error", 0, 0)>>)
  /\ Sends(<<>>)
  /\ ToPrompt
  /\ UNCHANGED <<jobs, child_finished, blocked, pending, proc, nforks>>

\* eval: addjob(jobs, pid, bg ? BG : FG, cmdline); on failure print and return
EvalAddjob ==
  /\ pc = "ev_addjob"
  /\ LET r == addjob(jobs, pid, IF bg = 0 THEN FG ELSE BG, CmdLine(bg))
     IN /\ jobs' = r.jobs
        /\ IF r.ret = 0
             THEN /\ Says(r.out \o <<Msg("Failed to add job", 0, 0)>>)
                  /\ ToPrompt
             ELSE /\ Says(r.out)
                  /\ pc' = "ev_unblock"
                  /\ UNCHANGED locals
  /\ Sends(<<>>)
  /\ UNCHANGED <<child_finished, blocked, pending, proc, nforks>>

\* An eval that waits for every job it launched, background or not.
EvalUnblock_wait ==
  /\ pc = "ev_unblock"
  /\ blocked' = FALSE
  /\ pc' = "wf_test"
  /\ wpid' = pid
  /\ Quiet
  /\ UNCHANGED <<jobs, child_finished, pending, proc, bg, pid, job, wasST,
                 nforks>>

\* eval: sigprocmask(SIG_UNBLOCK); then waitfg(pid) or the announcement
EvalUnblock ==
  /\ pc = "ev_unblock"
  /\ blocked' = FALSE
  /\ IF bg = 0
       THEN /\ pc' = "wf_test"
            /\ wpid' = pid
       ELSE /\ pc' = "ev_print"
            /\ UNCHANGED wpid
  /\ Quiet
  /\ UNCHANGED <<jobs, child_finished, pending, proc, bg, pid, job, wasST,
                 nforks>>

\* eval: printf("[%d] (%d) %s", pid2jid(pid), pid, cmdline)
EvalPrint ==
  /\ pc = "ev_print"
  /\ Says(<<Msg(CmdLine(bg), pid2jid(jobs, pid), pid)>>)
  /\ Sends(<<>>)
  /\ ToPrompt
  /\ UNCHANGED <<jobs, child_finished, blocked, pending, proc, nforks>>

\* ---- the built-in commands ----

\* builtin_cmd: "quit": sigquit_handler(SIGQUIT) prints and calls exit(1)
BuiltinQuit ==
  /\ pc = "prompt"
  /\ pc' = "exited"
  /\ Says(<<Msg("Terminating after receipt of SIGQUIT signal", 0, 0)>>)
  /\ Sends(<<>>)
  /\ UNCHANGED <<jobs, child_finished, blocked, pending, proc, locals, nforks>>

\* listjobs: one line per slot with pid != 0, in table order
RECURSIVE listjobs(_, _)
listjobs(J, i) ==
  IF i > MAXJOBS THEN <<>>
  ELSE IF J[i].pid # 0
    THEN <<Msg(CASE J[i].state = BG -> "Running "
                 [] J[i].state = FG -> "Foreground "
                 [] J[i].state = ST -> "Stopped "
                 [] OTHER -> "listjobs: Internal error",
               J[i].jid, J[i].pid)>> \o listjobs(J, i + 1)
  ELSE listjobs(J, i + 1)

\* builtin_cmd: "jobs"
BuiltinJobs ==
  /\ pc = "prompt"
  /\ Says(listjobs(jobs, 1))
  /\ Sends(<<>>)
  /\ UNCHANGED <<jobs, child_finished, blocked, pending, proc, pc, locals, nforks>>

\* do_bgfg: fg or bg without an argument
BgfgNoArg ==
  /\ pc = "prompt"
  /\ \E c \in {"fg", "bg"} :
       Says(<<Msg(c \o " command requires PID or %jobid argument", 0, 0)>>)
  /\ Sends(<<>>)
  /\ UNCHANGED <<jobs, child_finished, blocked, pending, proc, pc, locals, nforks>>

\* What atoi makes of the argument of fg and bg: 0 (also for an argument
\* that is no number), the jids, and one number past them.
BgfgArgs == 0..(MAXJOBS + 1)

\* do_bgfg: the argument is %jid or a pid; look the job up.  byJid: the
\* argument starts with '%'; n: what atoi makes of the digits.  What
\* argv[0] is, fg or bg, is first read after the kill (line 351), and the
\* model draws it there.
BgfgLookupArg(byJid, n) ==
  /\ pc = "prompt"
  /\ LET t == IF byJid THEN getjobjid(jobs, n) ELSE getjobpid(jobs, n)
     IN IF t = 0
          THEN /\ Says(<<IF byJid THEN Msg("No such job", n, 0)
                                  ELSE Msg("No such process", 0, n)>>)
               /\ UNCHANGED <<pc, job, wasST>>
          ELSE /\ Says(<<>>)
               /\ pc' = "bf_kill"
               /\ job' = t
               /\ wasST' = (jobs[t].state = ST)
  /\ Sends(<<>>)
  /\ UNCHANGED <<jobs, child_finished, blocked, pending, proc, bg, pid, wpid,
                 nforks>>

BgfgLookup == \E byJid \in BOOLEAN, n \in BgfgArgs : BgfgLookupArg(byJid, n)

\* do_bgfg: kill(-job->pid, SIGCONT), perror on failure
BgfgKill ==
  /\ pc = "bf_kill"
  /\ LET target == -(jobs[job].pid)
         k == Kill(proc, target, "SIGCONT", TRUE)
     IN /\ proc' = k.proc
        /\ pending' = (pending \/ k.chld)
        /\ Sends(<<[target |-> target, signo |-> "SIGCONT"]>>)
        /\ Says(IF k.ret < 0 THEN <<Msg("kill (SIGCONT) error", 0, 0)>>
                ELSE <<>>)
  /\ pc' = "bf_state"
  /\ UNCHANGED <<jobs, child_finished, blocked, locals, nforks>>

\* do_bgfg, argv[0] is "fg": job->state = FG; waitfg(job->pid)
BgfgFg ==
  /\ pc = "bf_state"
  /\ jobs' = [jobs EXCEPT ![job].state = FG]
  /\ wpid' = jobs[job].pid
  /\ pc' = "wf_test"
  /\ Quiet
  /\ UNCHANGED <<child_finished, blocked, pending, proc, bg, pid, job, wasST,
                 nforks>>

\* do_bgfg, argv[0] is "bg":
\* printf("[%d] (%d) %s", job->jid, job->pid, job->cmdline);
\* job->state = BG
BgfgBg ==
  /\ pc = "bf_state"
  /\ Says(<<Msg(jobs[job].cmdline, jobs[job].jid, jobs[job].pid)>>)
  /\ jobs' = [jobs EXCEPT ![job].state = BG]
  /\ Sends(<<>>)
  /\ ToPrompt
  /\ UNCHANGED <<child_finished, blocked, pending, proc, nforks>>

\* ---- waitfg ----

\* A waitfg that takes the job out of the table once its waitpid is done.
WaitfgTest_delete ==
  /\ pc = "wf_test"
  /\ IF child_finished = 0
       THEN /\ pc' = "wf_call"
            /\ UNCHANGED <<proc, locals, jobs>>
       ELSE /\ proc' = IF wpid >= 1 /\ proc[wpid] = "zombie"
                         THEN [proc EXCEPT ![wpid] = "none"]
                         ELSE proc
            /\ jobs' = deletejob(jobs, wpid)
            /\ ToPrompt
  /\ Quiet
  /\ UNCHANGED <<child_finished, blocked, pending, nforks>>

\* waitfg: if (!child_finished) go on to sigsuspend;
\* else { waitpid(pid, NULL, WNOHANG); break; } and return
WaitfgTest ==
  /\ pc = "wf_test"
  /\ IF child_finished = 0
       THEN /\ pc' = "wf_call"
            /\ UNCHANGED <<proc, locals>>
       ELSE /\ proc' = IF wpid >= 1 /\ proc[wpid] = "zombie"
                         THEN [proc EXCEPT ![wpid] = "none"]
                         ELSE proc
            /\ ToPrompt
  /\ Quiet
  /\ UNCHANGED <<jobs, child_finished, blocked, pending, nforks>>

\* waitfg: sigsuspend(&myset) is entered: every signal is unblocked and the
\* main flow sleeps until a handler has run
WaitfgSuspend ==
  /\ pc = "wf_call"
  /\ pc' = "wf_susp"
  /\ Quiet
  /\ UNCHANGED <<jobs, child_finished, blocked, pending, proc, locals, nforks>>

\* ---- the signal handlers ----

\* A handler has run: a sigsuspend in progress returns, and waitfg's loop
\* tests child_finished again.
Wake ==
  /\ pc' = IF pc = "wf_susp" THEN "wf_test" ELSE pc
  /\ UNCHANGED locals

\* sigchld_handler.  waitpid(-1, WNOHANG | WUNTRACED) returns the children
\* with a status to report in an order the kernel chooses: the handler reaps
\* a set T of terminated children and then either meets a stopped child s,
\* marks it and returns, or runs out of statuses (s = 0).
\* getjobpid(jobs, s) == NULL makes targetjob->state = ST a store through a
\* null pointer: the shell dies of it, or the store is lost and the handler
\* goes on.
SigchldHandler ==
  /\ Alive
  /\ pending
  /\ ~blocked \/ pc = "wf_susp"
  /\ pending' = FALSE
  /\ Sends(<<>>)
  /\ UNCHANGED <<blocked, nforks>>
  /\ \E T \in SUBSET Zombies, s \in StopNew \cup {0} :
       /\ (s = 0) => (StopNew = {} /\ T = Zombies)
       /\ LET J1 == DeleteAll(jobs, T)
              P1 == [p \in Pids |-> IF p \in T THEN "none" ELSE proc[p]]
              t == getjobpid(J1, s)
          IN IF s = 0
               THEN /\ jobs' = J1
                    /\ proc' = P1
                    /\ child_finished' = IF T = {} THEN child_finished ELSE 1
                    /\ Says(<<>>)
                    /\ Wake
             ELSE IF t # 0
               THEN /\ jobs' = [J1 EXCEPT ![t].state = ST]
                    /\ proc' = [P1 EXCEPT ![s] = "stop"]
                    /\ child_finished' = 1
                    /\ Says(<<Msg("stopped by signal", J1[t].jid, s)>>)
                    /\ Wake
             ELSE /\ jobs' = J1
                  /\ proc' = [P1 EXCEPT ![s] = "stop"]
                  /\ \/ /\ pc' = "crashed"
                        /\ child_finished' = IF T = {} THEN child_finished ELSE 1
                        /\ Says(<<>>)
                        /\ UNCHANGED locals
                     \/ /\ child_finished' = 1
                        /\ Says(<<Msg("stopped by signal", 0, s)>>)
                        /\ Wake

\* A keyboard handler that does the bookkeeping itself: it marks the
\* foreground job stopped and sets child_finished as it sends the signal.
KbdHandler_books(signo) ==
  /\ Alive
  /\ LET f == fgpid(jobs)
         t == getjobpid(jobs, f)
     IN IF f = 0
          THEN /\ Quiet
               /\ UNCHANGED <<proc, pending, jobs, child_finished>>
          ELSE LET k == Kill(proc, -f, signo, TRUE)
               IN /\ proc' = k.proc
                  /\ pending' = (pending \/ k.chld)
                  /\ Sends(<<[target |-> -f, signo |-> signo]>>)
                  /\ Says(<<>>)
                  /\ jobs' = [jobs EXCEPT ![t].state = ST]
                  /\ child_finished' = 1
  /\ Wake
  /\ UNCHANGED <<blocked, nforks>>

\* sigint_handler and sigtstp_handler: kill(fgpid(jobs), sig) if there is a
\* foreground job
KbdHandler(signo) ==
  /\ Alive
  /\ LET f == fgpid(jobs)
     IN IF f = 0
          THEN /\ Quiet
               /\ UNCHANGED <<proc, pending>>
          ELSE \E react \in BOOLEAN :
                 LET k == Kill(proc, f, signo, react)
                 IN /\ proc' = k.proc
                    /\ pending' = (pending \/ k.chld)
                    /\ Sends(<<[target |-> f, signo |-> signo]>>)
                    /\ Says(IF k.ret = -1
                              THEN <<Msg(IF signo = "SIGINT"
                                           THEN "Error killing process with SIGINT"
                                           ELSE "Error suspending process with SIGSTP",
                                         0, 0)>>
                              ELSE <<>>)
  /\ Wake
  /\ UNCHANGED <<jobs, child_finished, blocked, nforks>>

SigintHandler == KbdHandler("SIGINT")

SigtstpHandler == KbdHandler("SIGTSTP")

\* ---- the children ----

\* A child terminates (exit, or a signal from elsewhere).
ChildExit ==
  /\ Alive
  /\ \E p \in Pids :
       /\ proc[p] \in {"run", "stop", "stopnew"}
       /\ proc' = [proc EXCEPT ![p] = "zombie"]
  /\ pending' = TRUE
  /\ Quiet
  /\ UNCHANGED <<jobs, child_finished, blocked, pc, locals, nforks>>

\* A running child stops (it stops itself, or is stopped from elsewhere).
ChildStop ==
  /\ Alive
  /\ \E p \in Pids :
       /\ proc[p] = "run"
       /\ proc' = [proc EXCEPT ![p] = "stopnew"]
  /\ pending' = TRUE
  /\ Quiet
  /\ UNCHANGED <<jobs, child_finished, blocked, pc, locals, nforks>>

\* The steps of the main flow
ShellStep ==
  \/ EvalEmpty
  \/ EvalBlock
  \/ EvalFork
  \/ EvalForkFail
  \/ EvalAddjob
  \/ EvalUnblock
  \/ EvalPrint
  \/ BuiltinQuit
  \/ BuiltinJobs
  \/ BgfgNoArg
  \/ BgfgLookup
  \/ BgfgKill
  \/ BgfgFg
  \/ BgfgBg
  \/ WaitfgTest
  \/ WaitfgSuspend

Next ==
  \/ ShellStep
  \/ SigchldHandler
  \/ SigintHandler
  \/ SigtstpHandler
  \/ ChildExit
  \/ ChildStop

Spec == Init /\ [][Next]_vars

\* Once a command line is read the main flow takes its next step when it can
\* (it sleeps only inside sigsuspend), and the kernel delivers a pending
\* SIGCHLD that is not blocked.  Nothing obliges a child to change state or
\* the user to type a command or a control character.
FairSpec ==
  Spec /\ WF_vars(pc # "prompt" /\ ShellStep) /\ WF_vars(SigchldHandler)

----------------------------------------------------------------------------
\* The claims

Active(J) == {i \in Slots : J[i].pid # 0}

\* Job p is in the table in state FG
FgEntry(J, p) == p >= 1 /\ \E i \in Slots : J[i].pid = p /\ J[i].state = FG

\* waitfg returns in this step
WaitfgReturns == pc = "wf_test" /\ pc' = "prompt"

\* C1: at most one job of the table is in state FG, in every reachable state.
C1_AtMostOneFg ==
  Cardinality({i \in Active(jobs) : jobs[i].state = FG}) <= 1

\* C2: whenever waitfg(pid) returns, the job with that pid is no longer the
\* foreground job: its entry is gone, or its state is ST or BG.
C2_WaitfgReturnsNotFg ==
  [][WaitfgReturns => ~FgEntry(jobs', wpid)]_vars

\* C3: after fg on a job that was in state ST, the shell is back at the read
\* loop only when that job has terminated or has stopped again.
C3_FgOnStoppedBlocks ==
  [][(WaitfgReturns /\ wasST /\ wpid >= 1)
       => (proc'[wpid] # "run" \/ ~FgEntry(jobs', wpid))]_vars

\* C4: no ghost entries: no job of the table names a process whose
\* termination the shell has already reaped.
C4_NoGhostEntry ==
  \A i \in Active(jobs) : proc[jobs[i].pid] # "none"

\* sigchld_handler runs in this step and collects the status of p
HandlerReaps(p) ==
  /\ pending /\ ~pending'
  /\ \/ proc[p] = "zombie" /\ proc'[p] = "none"
     \/ proc[p] = "stopnew" /\ proc'[p] = "stop"

\* C5: whenever sigchld_handler reaps a stop or a termination of a child, the
\* job table holds an entry for that pid.
C5_ReapedPidInTable ==
  [][\A p \in Pids : HandlerReaps(p) => getjobpid(jobs, p) # 0]_vars

InWaitfg == pc \in {"wf_test", "wf_call", "wf_susp"}

\* C6: no lost wakeup: once the job waitfg waits for has terminated or
\* stopped, waitfg returns, with no further signal needed.
C6_NoLostWakeup ==
  (InWaitfg /\ wpid >= 1 /\ proc[wpid] # "run") ~> ~InWaitfg

UsedJids(J) == {J[i].jid : i \in Active(J)}

\* C7: each successful addjob gives the new job the smallest integer of
\* [1, MAXJOBS] that is the jid of no active job.
C7_SmallestFreeJid ==
  [][(pc = "ev_addjob" /\ pc' = "ev_unblock")
       => \E i \in Slots :
            /\ jobs[i].pid = 0
            /\ jobs'[i].pid = pid
            /\ jobs'[i].jid \in 1..MAXJOBS
            /\ jobs'[i].jid \notin UsedJids(jobs)
            /\ \A j \in 1..(jobs'[i].jid - 1) : j \in UsedJids(jobs)]_vars

\* C7: a third job has been added under jid 1 while jid 2 is in use: the jid
\* of a deleted job was handed out again.
C7_Witness ==
  /\ pc = "ev_unblock" /\ nforks = 3
  /\ \E i, k \in Slots :
       /\ jobs[i].pid = pid /\ jobs[i].jid = 1
       /\ jobs[k].pid # 0 /\ jobs[k].jid = 2

\* C8: no two active entries of the job table have the same pid.
C8_PidUnique ==
  \A i, k \in Active(jobs) : i # k => jobs[i].pid # jobs[k].pid

\* C9: no two active entries of the job table have the same jid, and every
\* active entry's jid lies in [1, MAXJOBS].
C9_JidUniqueInRange ==
  /\ \A i, k \in Active(jobs) : i # k => jobs[i].jid # jobs[k].jid
  /\ \A i \in Active(jobs) : jobs[i].jid \in 1..MAXJOBS

\* C9: the table is full of live jobs at the prompt
C9_Witness ==
  /\ pc = "prompt"
  /\ Active(jobs) = Slots
  /\ \A i \in Slots : proc[jobs[i].pid] = "run"

Full(J) == Active(J) = Slots

TableFullReport ==
  <<Msg("Tried to create too many jobs", 0, 0), Msg("Failed to add job", 0, 0)>>

\* C10: with MAXJOBS active jobs in the table, addjob fails after reporting
\* the error, no entry of the table changes, and eval returns without a new job.
C10_TableFull ==
  [][(pc = "ev_addjob" /\ pc' # "ev_addjob" /\ Full(jobs))
       => (jobs' = jobs /\ pc' = "prompt" /\ out' = TableFullReport)]_vars

\* C10: a spawn has just been turned down by a table full of live jobs
C10_Witness ==
  /\ pc = "prompt" /\ out = TableFullReport
  /\ Full(jobs)
  /\ \A p \in Pids : proc[p] = "run"

\* A child that is running or stopped
Live(p) == proc[p] \in {"run", "stopnew", "stop"}

\* C11: outside the window between fork and addjob, every child that eval
\* forked and that is still alive has an entry in the job table.
C11_LiveChildTracked ==
  pc # "ev_addjob" => \A p \in Pids : Live(p) => getjobpid(jobs, p) # 0

\* C12: whenever the main flow is back at the read loop, SIGCHLD is not
\* blocked.
C12_UnblockedAtPrompt ==
  pc = "prompt" => ~blocked

\* The signals the keyboard handlers pass on
KbdSignals == {"SIGINT", "SIGTSTP"}

\* C13: every SIGINT or SIGTSTP the shell sends goes to a process group: the
\* target of the kill is the negated pid of the foreground job.
C13_KbdSignalToGroup ==
  \A i \in DOMAIN sig : sig[i].signo \in KbdSignals => sig[i].target < 0

\* What do_bgfg prints for an argument that names no job
NoSuchJob(n) == <<Msg("No such job", n, 0)>>

NoSuchProcess(n) == <<Msg("No such process", 0, n)>>

\* do_bgfg's lookup goes on to the kill or prints a message that carries its
\* argument n: a step that does neither for n is no lookup of n.
MayLookUpJid(n) == pc' = "bf_kill" \/ (out' # <<>> /\ out'[1].jid = n)

MayLookUpPid(n) == pc' = "bf_kill" \/ (out' # <<>> /\ out'[1].pid = n)

\* A step of do_bgfg's lookup for %n, for pid n, while no active job has that
\* jid, that pid
LookupOfNoJid(n) ==
  /\ MayLookUpJid(n)
  /\ \A i \in Active(jobs) : jobs[i].jid # n
  /\ BgfgLookupArg(TRUE, n)

LookupOfNoPid(n) ==
  /\ MayLookUpPid(n)
  /\ \A i \in Active(jobs) : jobs[i].pid # n
  /\ BgfgLookupArg(FALSE, n)

\* The step leaves the shell at the read loop with no signal sent and the job
\* table as it was
NothingDone == sig' = <<>> /\ pc' = "prompt" /\ jobs' = jobs

\* C14: fg or bg with a %jid that is the jid of no active job prints "No such
\* job", and with a pid that is the pid of no active job prints "No such
\* process"; the step sends no signal, does not go on to the kill or to
\* waitfg, and changes no entry of the job table.
C14_NoSuchJob ==
  [][pc = "prompt" =>
       \A n \in BgfgArgs :
         /\ LookupOfNoJid(n) => (out' = NoSuchJob(n) /\ NothingDone)
         /\ LookupOfNoPid(n) => (out' = NoSuchProcess(n) /\ NothingDone)]_vars

\* C14: a job is in the table and the last command named a jid that no
\* active job has
C14_Witness ==
  /\ pc = "prompt" /\ Active(jobs) # {}
  /\ \E n \in BgfgArgs :
       /\ out = NoSuchJob(n)
       /\ \A i \in Active(jobs) : jobs[i].jid # n

\* The announcement of a background job
Announcement(j, p) == <<Msg(CmdLine(1), j, p)>>

ActivePids(J) == {J[i].pid : i \in Active(J)}

\* C16: an entry leaves the job table only in a step of sigchld_handler in
\* which the handler reaps a termination of the entry's pid: no other step
\* makes the set of active pids smaller or clears a slot.
C16_OnlyHandlerRemoves ==
  [][\A i \in Slots :
       (jobs[i].pid # 0 /\ jobs'[i].pid # jobs[i].pid)
         => /\ pending /\ ~pending'
            /\ proc[jobs[i].pid] = "zombie"
            /\ proc'[jobs[i].pid] = "none"
            /\ jobs'[i] = ClearedJob]_vars

\* C16: waitfg has reaped a job's process itself and is back at the read loop
\* with the entry still in the table, next to a slot that the handler cleared
C16_Witness ==
  /\ pc = "prompt"
  /\ \E i, k \in Slots :
       /\ jobs[i].pid # 0 /\ proc[jobs[i].pid] = "none"
       /\ jobs[k] = ClearedJob
  /\ nforks >= 2

\* C17: sigint_handler and sigtstp_handler change neither the job table nor
\* child_finished, and with no job in state FG they send no signal: a step
\* keeps the table and the flag and sends nothing without a foreground job,
\* or it is not a step of these handlers.
C17_KbdHandlerFrame ==
  [][\/ /\ jobs' = jobs
        /\ child_finished' = child_finished
        /\ (\A i \in Active(jobs) : jobs[i].state # FG) => sig' = <<>>
     \/ ~(SigintHandler \/ SigtstpHandler)]_vars

\* C17: ctrl-z has stopped the foreground job and the table still shows it in
\* state FG: sigchld_handler has not run yet
C17_Witness ==
  /\ sig # <<>> /\ sig[1].signo = "SIGTSTP"
  /\ \E i \in Slots :
       /\ jobs[i].state = FG /\ jobs[i].pid >= 1
       /\ proc[jobs[i].pid] = "stopnew"
  /\ child_finished = 0

\* sigchld_handler runs in this step
HandlerRuns == pending /\ ~pending'

\* The handler reaps a termination of p, a stop of p
ReapsExit(p) == HandlerRuns /\ proc[p] = "zombie" /\ proc'[p] = "none"

ReapsStop(p) == HandlerRuns /\ proc[p] = "stopnew" /\ proc'[p] = "stop"

\* The handler reaps some status
ReapsAny == \E p \in Pids : ReapsExit(p) \/ ReapsStop(p)

\* C18: for each status sigchld_handler reaps: a stopped child's job stays in
\* the table with its pid, jid and command line, in state ST; a terminated
\* child's entry is removed; child_finished becomes 1; the entries of the jobs
\* whose status was not reaped do not change.
C18_HandlerEffects ==
  [][/\ \A p \in Pids :
          /\ ReapsStop(p)
               => \E i \in Slots :
                    /\ jobs[i].pid = p
                    /\ jobs'[i] = [jobs[i] EXCEPT !.state = ST]
          /\ ReapsExit(p) => p \notin ActivePids(jobs')
     /\ ReapsAny => child_finished' = 1 /\ pc' # "crashed"
     /\ HandlerRuns
          => \A i \in Slots :
               (\A p \in Pids : (ReapsExit(p) \/ ReapsStop(p)) => jobs[i].pid # p)
                 => jobs'[i] = jobs[i]]_vars

\* Child p is in the job table and has terminated
RegisteredZombie(p) == proc[p] = "zombie" /\ getjobpid(jobs, p) # 0

\* C19: every registered child that terminates is in the end reaped, so that
\* its job can leave the table, for as long as the shell runs and does not
\* hold SIGCHLD blocked; also when one SIGCHLD stands for the status changes
\* of several children.
C19_ZombieReaped ==
  \A p \in Pids :
    RegisteredZombie(p) ~> (proc[p] # "zombie" \/ blocked \/ ~Alive)

\* C20: every slot of the job table is fully empty or fully active: pid, jid
\* and state are all zero, or pid and jid are set and the state is FG, BG or
\* ST.
C20_SlotsWhole ==
  \A i \in Slots :
    \/ jobs[i].pid = 0 /\ jobs[i].jid = 0 /\ jobs[i].state = UNDEF
    \/ jobs[i].pid # 0 /\ jobs[i].jid # 0 /\ jobs[i].state \in {FG, BG, ST}
====
